---------------------------- MODULE Spec2Model ----------------------------
(***************************************************************************)
(* A model of resorter (src/src/main.rs): the `resort` command.            *)
(*                                                                         *)
(* One behaviour is one invocation of run_resort on a store file.  The     *)
(* f64 fields of a RatedItem are modelled on an integer grid: ratings in   *)
(* rating points, deviations in deviation points.  The calls into the      *)
(* skillratings crate (glicko, decay_deviation) are modelled as            *)
(* deterministic functions on that grid; the calls into rand as            *)
(* nondeterministic choices; the csv writer as a buffered writer on top    *)
(* of a small file system.                                                 *)
(***************************************************************************)
EXTENDS Integers, Sequences, FiniteSets, Bags, TLC

(***************************************************************************)
(* Bounds of the model.                                                    *)
(***************************************************************************)
\* Largest number of records in the store file.
MaxItems == 3
\* Largest working set the bucket loop of save_ratings is run on by itself.
MaxSorted == 30
\* Number of records the csv writer's internal buffer holds before it
\* flushes to the file (the crate buffers 8 KiB of output).
BufCap == 2

(***************************************************************************)
(* Program constants.                                                      *)
(***************************************************************************)
\* let rating_deviation_threshold = 65.0;
rating_deviation_threshold == 65
\* let quartiles = 10;
quartiles == 10
\* rand::random::<f64>() < 0.25, in hundredths of the unit interval
top_branch_cut == 25

(***************************************************************************)
(* Inputs: what the store file may hold when run_resort starts.            *)
(***************************************************************************)
ItemNames == <<"a", "b">>
\* Record i of the store carries a name of ItemNames, cyclically: with
\* three records two of them share a name (names are not unique).
NameAt(i) == ItemNames[((i - 1) % Len(ItemNames)) + 1]
RatingInputs == {1500}
DeviationInputs == {10, 65, 100}
BucketInputs == {0}
\* Outcomes of rand::random::<f64>(), in hundredths.
Draws == {24, 25}

(***************************************************************************)
(* Paths.  A path is a stem and an extension; the file system holds the    *)
(* store file and whatever file.with_extension("new") names.               *)
(***************************************************************************)
Path(stem, ext) == [stem |-> stem, ext |-> ext]
\* PathBuf::with_extension
with_extension(p, ext) == [p EXCEPT !.ext = ext]
FileInputs == {Path("items", "csv"), Path("items", "new")}
Paths == FileInputs \cup {with_extension(p, "new") : p \in FileInputs}
\* A file that exists holds a sequence of records.
File(rows) == [exists |-> TRUE, rows |-> rows]
NoFile == [exists |-> FALSE, rows |-> <<>>]
Writer(path, buf) == [open |-> TRUE, path |-> path, buf |-> buf]
NoWriter == [open |-> FALSE, path |-> Path("", ""), buf |-> <<>>]
NoPlayer == "NoPlayer"

(***************************************************************************)
(* Sequences.                                                              *)
(***************************************************************************)
Min(a, b) == IF a < b THEN a ELSE b
Max(a, b) == IF a > b THEN a ELSE b
\* The permutations of 1..n, for every length a working set may have.
RECURSIVE Arrangements(_)
Arrangements(S) ==
    IF S = {} THEN {<<>>}
    ELSE UNION {{<<x>> \o p : p \in Arrangements(S \ {x})} : x \in S}
PermsOfLength == <<Arrangements(1..0)>> \o [n \in 1..MaxItems |-> Arrangements(1..n)]
Perms(n) == PermsOfLength[n + 1]
Permute(s, p) == [i \in 1..Len(s) |-> s[p[i]]]
\* slice::swap
Swap(s, i, j) == [s EXCEPT ![i] = s[j], ![j] = s[i]]
Prefix(s, k) == SubSeq(s, 1, k)

(***************************************************************************)
(* RatedItem and its csv record.  A record is the row of four fields that  *)
(* serde writes, in declaration order.                                     *)
(***************************************************************************)
RatedItem(name, rating, deviation, rating_quartile) ==
    [name |-> name, rating |-> rating, deviation |-> deviation,
     rating_quartile |-> rating_quartile]
\* csv_writer.serialize(item)
Serialize(item) == <<item.name, item.rating, item.deviation, item.rating_quartile>>
\* record.deserialize(None)
Deserialize(row) == RatedItem(row[1], row[2], row[3], row[4])
Rows(its) == [i \in 1..Len(its) |-> Serialize(its[i])]
\* The multiset of a sequence's elements.
RECURSIVE BagOf(_)
BagOf(s) == IF s = <<>> THEN EmptyBag ELSE BagOf(Tail(s)) (+) SetToBag({Head(s)})
NameBag(rows) == BagOf([i \in 1..Len(rows) |-> rows[i][1]])

(***************************************************************************)
(* skillratings::glicko on the integer grid.                               *)
(***************************************************************************)
\* Outcomes::to_chess_points, in half points.
Points(o) == CASE o = "WIN" -> 2 [] o = "DRAW" -> 1 [] o = "LOSS" -> 0
\* A rating gap from which the stronger player's expected score is a win.
SureGap == 20
\* Rating points moved per half point of surprise.
RatingStep == 10
\* Deviation points one game takes off, down to the floor under which a
\* game no longer moves a deviation on the grid.
DevStep == 35
DevFloor == 60
\* GlickoConfig::default().c squared (c = 63.2), and the deviation cap.
DecayCSquared == 3994
MaxDeviation == 350
\* The expected score of a player against an opponent, in half points.
Expected(r, opp) == IF r - opp >= SureGap THEN 2 ELSE IF opp - r >= SureGap THEN 0 ELSE 1
GlickoPlayer(rating, deviation) == [rating |-> rating, deviation |-> deviation]
\* Mutant: a game that leaves the rating where it was.
NewRating_Unmoved(p, opp, points) == p.rating
NewRating(p, opp, points) == p.rating + RatingStep * (points - Expected(p.rating, opp.rating))
\* Mutant: a game that leaves the deviation where it was.
NewDeviation_Stuck(d) == d
NewDeviation(d) == Min(d, Max(d - DevStep, DevFloor))
\* glicko(&player_one, &player_two, &outcome, &config)
glicko(p1, p2, o) ==
    << GlickoPlayer(NewRating(p1, p2, Points(o)), NewDeviation(p1.deviation)),
       GlickoPlayer(NewRating(p2, p1, 2 - Points(o)), NewDeviation(p2.deviation)) >>
ISqrt(x) == CHOOSE r \in 0..(MaxDeviation + 1) :
               r * r <= x /\ ((r + 1) * (r + 1) > x \/ r = MaxDeviation + 1)
\* decay_deviation(&rating, &config)
decay_deviation(p) ==
    GlickoPlayer(p.rating, Min(ISqrt(p.deviation * p.deviation + DecayCSquared), MaxDeviation))

(***************************************************************************)
(* run_resort: the convergence test.                                       *)
(***************************************************************************)
\* Mutant: the threshold itself counts as exceeding.
Exceeds_AtLeast(deviation) == deviation >= rating_deviation_threshold
\* v.deviation > rating_deviation_threshold
Exceeds(deviation) == deviation > rating_deviation_threshold
\* items.iter().filter(|v| v.deviation > threshold).count() > 0
UnstabilizedAtEntry(its) == Cardinality({i \in 1..Len(its) : Exceeds(its[i].deviation)}) > 0
\* the for loop with break after save_ratings
UnstabilizedAfterRound(its) == \E i \in 1..Len(its) : Exceeds(its[i].deviation)

(***************************************************************************)
(* run_resort: the decay pre-pass.                                         *)
(***************************************************************************)
DecayItem(item) ==
    LET new_rating == decay_deviation(GlickoPlayer(item.rating, item.deviation))
    IN  [item EXCEPT !.rating = new_rating.rating, !.deviation = new_rating.deviation]
DecayAll(its) == [i \in 1..Len(its) |-> DecayItem(its[i])]

(***************************************************************************)
(* run_resort: pair selection.                                             *)
(***************************************************************************)
\* Mutant: the comparator not reversed.
SortedByDeviationDesc_Ascending(its) ==
    {s \in {Permute(its, p) : p \in Perms(Len(its))} :
        \A i \in 1..(Len(s) - 1) : s[i].deviation <= s[i + 1].deviation}
\* items.sort_unstable_by(deviation, reversed): any order the comparator
\* accepts (ties are broken arbitrarily).
SortedByDeviationDesc(its) ==
    {s \in {Permute(its, p) : p \in Perms(Len(its))} :
        \A i \in 1..(Len(s) - 1) : s[i].deviation >= s[i + 1].deviation}
\* items.partial_shuffle(&mut rng, 2): for i from the last index down over
\* the last two slots, swap slot i with a slot drawn from 0..=i.
PartialShuffle2(its) ==
    LET n == Len(its)
    IN  {Swap(Swap(its, n, j1), n - 1, j2) : j1 \in 1..n, j2 \in 1..(n - 1)}
\* iter.next() twice: the first two slots.
TopLeft == 1
TopRight == 2
\* needed_items.split_at_mut(1): left_part[0] and right_part[0] are the two
\* slots partial_shuffle returns, the last two of the Vec.
RandomLeft(n) == n - 1
\* Mutant: both references taken from the same slot.
RandomRight_SameSlot(n) == n - 1
RandomRight(n) == n
\* The answer of the prompt, mapped to the outcome for the left player.
Answers == {"left", "equal", "right"}
\* Mutant: "equal" passed on as a draw.
OutcomeOf_Draw(a) == CASE a = "left" -> "WIN" [] a = "right" -> "LOSS" [] OTHER -> "DRAW"
OutcomeOf(a) == CASE a = "left" -> "WIN" [] a = "right" -> "LOSS" [] OTHER -> "LOSS"

(***************************************************************************)
(* save_ratings: sort by rating, assign buckets.                           *)
(***************************************************************************)
\* Mutant: the comparator reversed.
SortedByRating_Desc(its) ==
    {s \in {Permute(its, p) : p \in Perms(Len(its))} :
        \A i \in 1..(Len(s) - 1) : s[i].rating >= s[i + 1].rating}
SortedByRating(its) ==
    {s \in {Permute(its, p) : p \in Perms(Len(its))} :
        \A i \in 1..(Len(s) - 1) : s[i].rating <= s[i + 1].rating}
\* Mutant: the bucket number is added to the one the item carries.
AssignQuartiles_Accumulates(its) ==
    LET group == Len(its) \div quartiles + 1
    IN  [i \in 1..Len(its) |->
            [its[i] EXCEPT !.rating_quartile = @ + (i - 1) \div group]]
\* Mutant: a bucket is closed as soon as it holds items_per_quartile items.
AssignQuartiles_ExactShare(its) ==
    LET group == Max(Len(its) \div quartiles, 1)
    IN  [i \in 1..Len(its) |->
            [its[i] EXCEPT !.rating_quartile = (i - 1) \div group]]
\* Mutant: every item opens a bucket of its own.
AssignQuartiles_OnePerBucket(its) ==
    [i \in 1..Len(its) |-> [its[i] EXCEPT !.rating_quartile = i - 1]]
\* The bucket loop over a sequence: the counters before the item in slot
\* k + 1 is visited.
AssignQuartiles(its) ==
    LET items_per_quartile == Len(its) \div quartiles
        walk[k \in 0..Len(its)] ==
            IF k = 0 THEN [current_quartile |-> 0, items_in_current_quartile |-> 0]
            ELSE LET w == walk[k - 1]
                 IN  IF w.items_in_current_quartile + 1 > items_per_quartile
                     THEN [current_quartile |-> w.current_quartile + 1,
                           items_in_current_quartile |-> 0]
                     ELSE [current_quartile |-> w.current_quartile,
                           items_in_current_quartile |-> w.items_in_current_quartile + 1]
    IN  [i \in 1..Len(its) |-> [its[i] EXCEPT !.rating_quartile = walk[i - 1].current_quartile]]

(***************************************************************************)
(* The csv writer: serialize appends a record to the buffer, flushing the  *)
(* buffer to the file first when it is full.                               *)
(***************************************************************************)
RECURSIVE WriteAll_LosesBuffer(_, _, _)
\* Mutant: a full buffer is discarded instead of flushed.
WriteAll_LosesBuffer(content, buf, rows) ==
    IF rows = <<>> THEN <<content, buf>>
    ELSE IF Len(buf) >= BufCap
         THEN WriteAll_LosesBuffer(content, <<Head(rows)>>, Tail(rows))
         ELSE WriteAll_LosesBuffer(content, Append(buf, Head(rows)), Tail(rows))
RECURSIVE WriteAll(_, _, _)
\* <<file content, buffer>> after serializing rows into a writer.
WriteAll(content, buf, rows) ==
    IF rows = <<>> THEN <<content, buf>>
    ELSE IF Len(buf) >= BufCap
         THEN WriteAll(content \o buf, <<Head(rows)>>, Tail(rows))
         ELSE WriteAll(content, Append(buf, Head(rows)), Tail(rows))
\* Mutant: the fresh copy is never moved over the store.
Rename_Skipped(f, from, to) == f
\* std::fs::rename(from, to)
Rename(f, from, to) ==
    IF from = to THEN f ELSE [f EXCEPT ![to] = f[from], ![from] = NoFile]


(***************************************************************************)
(* State.                                                                  *)
(***************************************************************************)
VARIABLES
    fs,             \* the file system: path -> File(records), or NoFile
    file,           \* args.file
    do_decay,       \* the --decay flag
    pc,             \* where run_resort stands
    cause,          \* why the run panicked, "" while it has not
    items,          \* the working set (Vec<RatedItem>)
    unstabilized,   \* the loop condition
    draw,           \* the last rand::random::<f64>(), in hundredths
    branch,         \* the selection branch of the current round
    left, right,    \* slots of items the round's references point at (0: none)
    left_player, right_player,  \* the GlickoRating copies taken before the prompt
    answer,         \* what the prompt returned this round
    outcome,        \* the Outcomes value passed to glicko
    wtr,            \* the csv writer of save_ratings: Writer(path, buf), or NoWriter
    loaded,         \* history: the names of the records read at start
    saved,          \* history: the records of the last completed save_ratings
    asked,          \* history: a prompt has been shown
    compared        \* history: a rating update has been applied

vars == <<fs, file, do_decay, pc, cause, items, unstabilized, draw, branch, left, right,
          left_player, right_player, answer, outcome, wtr, loaded, saved, asked, compared>>

round_locals == <<draw, branch, left, right, left_player, right_player, answer, outcome>>
history == <<loaded, saved, asked, compared>>

\* The path save_ratings writes the fresh copy to.
new == with_extension(file, "new")

(***************************************************************************)
(* The stores run_resort may be started on.                                *)
(***************************************************************************)
RowInputs(i) ==
    {<<NameAt(i), r, d, b>> : r \in RatingInputs, d \in DeviationInputs, b \in BucketInputs}
StoreInputs ==
    UNION {{s \in [1..n -> UNION {RowInputs(i) : i \in 1..n}] :
                \A i \in 1..n : s[i] \in RowInputs(i)} : n \in 0..MaxItems}

Init ==
    /\ file \in FileInputs
    /\ do_decay \in BOOLEAN
    /\ \E store \in {File(rows) : rows \in StoreInputs} \cup {NoFile} :
           fs = [p \in Paths |-> IF p = file THEN store ELSE NoFile]
    /\ pc = "start"
    /\ cause = ""
    /\ items = <<>>
    /\ unstabilized = FALSE
    /\ draw = 0
    /\ branch = ""
    /\ left = 0
    /\ right = 0
    /\ left_player = NoPlayer
    /\ right_player = NoPlayer
    /\ answer = ""
    /\ outcome = ""
    /\ wtr = NoWriter
    /\ loaded = EmptyBag
    /\ saved = <<>>
    /\ asked = FALSE
    /\ compared = FALSE

Panic(why) == pc' = "aborted" /\ cause' = why

(***************************************************************************)
(* run_resort, lines 71-116: load, decay, the size test, the shuffle and   *)
(* the first convergence test.                                             *)
(***************************************************************************)
\* The working set after the optional decay pre-pass.
Prepared(rows) ==
    LET read == [i \in 1..Len(rows) |-> Deserialize(rows[i])]
    IN  IF do_decay THEN DecayAll(read) ELSE read
\* Mutant: only the empty working set is turned away.
TooFew_OnlyEmpty(its) == Len(its) < 1
\* items.len() < 2
TooFew(its) == Len(its) < 2

Load ==
    /\ pc = "start"
    /\ IF ~fs[file].exists
       THEN /\ Panic("open")
            /\ UNCHANGED <<items, unstabilized, history>>
       ELSE /\ loaded' = NameBag(fs[file].rows)
            /\ saved' = fs[file].rows
            /\ UNCHANGED <<asked, compared>>
            /\ IF TooFew(Prepared(fs[file].rows))
               THEN /\ items' = Prepared(fs[file].rows)
                    /\ pc' = "insufficient"
                    /\ UNCHANGED <<cause, unstabilized>>
               ELSE /\ \E p \in Perms(Len(fs[file].rows)) :
                           items' = Permute(Prepared(fs[file].rows), p)
                    /\ unstabilized' = UnstabilizedAtEntry(items')
                    /\ pc' = "while"
                    /\ UNCHANGED cause
    /\ UNCHANGED <<fs, file, do_decay, round_locals, wtr>>

\* while unstabilized { ... }  and  println!("Ratings are stabilized!")
WhileTest ==
    /\ pc = "while"
    /\ pc' = IF unstabilized THEN "select" ELSE "stabilized"
    /\ UNCHANGED <<fs, file, do_decay, cause, items, unstabilized, round_locals, wtr, history>>

(***************************************************************************)
(* run_resort, lines 120-153: the pair selector, up to the prompt.         *)
(***************************************************************************)
\* rand::random::<f64>() < 0.25
TakesTopBranch(d) == d < top_branch_cut

Pick(its, l, r) ==
    /\ items' = its
    /\ left' = l
    /\ right' = r
    /\ left_player' = GlickoPlayer(its[l].rating, its[l].deviation)
    /\ right_player' = GlickoPlayer(its[r].rating, its[r].deviation)
    /\ pc' = "ask"
    /\ UNCHANGED cause

SelectTop ==
    /\ pc = "select"
    /\ \E d \in Draws :
        /\ TakesTopBranch(d)
        /\ draw' = d
        /\ branch' = "top"
        /\ IF Len(items) < 2
           THEN /\ Panic("unwrap")
                /\ UNCHANGED <<items, left, right, left_player, right_player>>
           ELSE \E s \in SortedByDeviationDesc(items) : Pick(s, TopLeft, TopRight)
    /\ UNCHANGED <<fs, file, do_decay, unstabilized, answer, outcome, wtr, history>>

SelectRandom ==
    /\ pc = "select"
    /\ \E d \in Draws :
        /\ ~TakesTopBranch(d)
        /\ draw' = d
        /\ branch' = "random"
        /\ IF Len(items) < 2
           THEN /\ Panic("index")
                /\ UNCHANGED <<items, left, right, left_player, right_player>>
           ELSE \E s \in PartialShuffle2(items) :
                    Pick(s, RandomLeft(Len(s)), RandomRight(Len(s)))
    /\ UNCHANGED <<fs, file, do_decay, unstabilized, answer, outcome, wtr, history>>

(***************************************************************************)
(* run_resort, lines 154-172: the prompt and the rating update.            *)
(***************************************************************************)
\* Mutant: the right player's result written to every slot but the left one.
Updated_EveryOther(its, l, r, res) ==
    [i \in 1..Len(its) |->
        IF i = l
        THEN [its[i] EXCEPT !.rating = res[1].rating, !.deviation = res[1].deviation]
        ELSE [its[i] EXCEPT !.rating = res[2].rating, !.deviation = res[2].deviation]]
\* The items after both references are written through.
Updated(its, l, r, res) ==
    [[its EXCEPT ![l] = [@ EXCEPT !.rating = res[1].rating, !.deviation = res[1].deviation]]
          EXCEPT ![r] = [@ EXCEPT !.rating = res[2].rating, !.deviation = res[2].deviation]]

\* Mutant: the round goes to the convergence test without save_ratings.
Answer_SkipsSave(a) ==
    /\ pc = "ask"
    /\ answer' = a
    /\ outcome' = OutcomeOf(a)
    /\ items' = Updated(items, left, right, glicko(left_player, right_player, OutcomeOf(a)))
    /\ asked' = TRUE
    /\ compared' = TRUE
    /\ pc' = "check"
    /\ UNCHANGED <<fs, file, do_decay, cause, unstabilized, draw, branch, left, right,
                   left_player, right_player, wtr, loaded, saved>>

Answer(a) ==
    /\ pc = "ask"
    /\ answer' = a
    /\ outcome' = OutcomeOf(a)
    /\ items' = Updated(items, left, right, glicko(left_player, right_player, OutcomeOf(a)))
    /\ asked' = TRUE
    /\ compared' = TRUE
    /\ pc' = "save"
    /\ UNCHANGED <<fs, file, do_decay, cause, unstabilized, draw, branch, left, right,
                   left_player, right_player, wtr, loaded, saved>>

\* Mutant: the update is applied with a default outcome before the panic.
OracleFail_AfterUpdate ==
    /\ pc = "ask"
    /\ Panic("oracle")
    /\ asked' = TRUE
    /\ items' = Updated(items, left, right, glicko(left_player, right_player, "LOSS"))
    /\ UNCHANGED <<fs, file, do_decay, unstabilized, round_locals, wtr,
                   loaded, saved, compared>>

\* q.prompt().unwrap() on a cancelled or failed prompt
OracleFail ==
    /\ pc = "ask"
    /\ Panic("oracle")
    /\ asked' = TRUE
    /\ UNCHANGED <<fs, file, do_decay, items, unstabilized, round_locals, wtr,
                   loaded, saved, compared>>

(***************************************************************************)
(* save_ratings.                                                           *)
(***************************************************************************)
\* lines 191-208: the items sorted by rating with their buckets assigned
Bucketized(its) == {AssignQuartiles(s) : s \in SortedByRating(its)}

\* line 173: the block of the round ends, and with it its locals
EndOfBlock ==
    /\ draw' = 0
    /\ branch' = ""
    /\ left' = 0
    /\ right' = 0
    /\ left_player' = NoPlayer
    /\ right_player' = NoPlayer
    /\ answer' = ""
    /\ outcome' = ""

\* lines 176, 190-219: sort, bucketize, create and truncate the fresh copy
SaveOpen ==
    /\ pc = "save"
    /\ items' \in Bucketized(items)
    /\ fs' = [fs EXCEPT ![new] = File(<<>>)]
    /\ wtr' = Writer(new, <<>>)
    /\ EndOfBlock
    /\ pc' = "serialize"
    /\ UNCHANGED <<file, do_decay, cause, unstabilized, history>>

SaveOpenFail ==
    /\ pc = "save"
    /\ items' \in Bucketized(items)
    /\ Panic("create")
    /\ EndOfBlock
    /\ UNCHANGED <<fs, file, do_decay, unstabilized, wtr, history>>

\* lines 220-222: every item through the writer
SaveSerialize ==
    /\ pc = "serialize"
    /\ LET w == WriteAll(fs[wtr.path].rows, wtr.buf, Rows(items))
       IN  /\ fs' = [fs EXCEPT ![wtr.path] = File(w[1])]
           /\ wtr' = [wtr EXCEPT !.buf = w[2]]
    /\ pc' = "rename"
    /\ UNCHANGED <<file, do_decay, cause, items, unstabilized, round_locals, history>>

\* a write error: the panic drops the writer, which flushes what it can,
\* leaving the first j records in the file
SaveSerializeFail ==
    /\ pc = "serialize"
    /\ \E j \in 0..(Len(items) - 1) :
        fs' = [fs EXCEPT ![wtr.path] = File(Prefix(Rows(items), j))]
    /\ wtr' = NoWriter
    /\ Panic("write")
    /\ UNCHANGED <<file, do_decay, items, unstabilized, round_locals, history>>

\* line 224: the rename, with the writer still open on the renamed file
SaveRename ==
    /\ pc = "rename"
    /\ fs' = Rename(fs, new, file)
    /\ wtr' = [wtr EXCEPT !.path = file]
    /\ pc' = "drop"
    /\ UNCHANGED <<file, do_decay, cause, items, unstabilized, round_locals, history>>

SaveRenameFail ==
    /\ pc = "rename"
    /\ fs' = [fs EXCEPT ![wtr.path] = File(@.rows \o wtr.buf)]
    /\ wtr' = NoWriter
    /\ Panic("rename")
    /\ UNCHANGED <<file, do_decay, items, unstabilized, round_locals, history>>

\* line 225: the writer goes out of scope and flushes its buffer
SaveReturn ==
    /\ pc = "drop"
    /\ fs' = [fs EXCEPT ![wtr.path] = File(@.rows \o wtr.buf)]
    /\ wtr' = NoWriter
    /\ saved' = Rows(items)
    /\ pc' = "check"
    /\ UNCHANGED <<file, do_decay, cause, items, unstabilized, round_locals,
                   loaded, asked, compared>>

(***************************************************************************)
(* run_resort, lines 178-185: the convergence test after the round.        *)
(***************************************************************************)
Check ==
    /\ pc = "check"
    /\ unstabilized' = UnstabilizedAfterRound(items)
    /\ pc' = "while"
    /\ UNCHANGED <<fs, file, do_decay, cause, items, round_locals, wtr, history>>

Next ==
    \/ Load
    \/ WhileTest
    \/ SelectTop
    \/ SelectRandom
    \/ \E a \in Answers : Answer(a)
    \/ OracleFail
    \/ SaveOpen
    \/ SaveOpenFail
    \/ SaveSerialize
    \/ SaveSerializeFail
    \/ SaveRename
    \/ SaveRenameFail
    \/ SaveReturn
    \/ Check

Spec == Init /\ [][Next]_vars


\* The run goes on: a step is taken whenever one can be (the prompt is
\* answered or fails, the file operations return).
\* It is checked from the stores of fresh and settled items under the usual
\* file name, without decay.
LiveInit ==
    /\ Init
    /\ file = Path("items", "csv")
    /\ ~do_decay
    /\ \A i \in 1..Len(fs[file].rows) : fs[file].rows[i][3] \in {10, 100}
LiveSpec == LiveInit /\ [][Next]_vars /\ WF_vars(Next)

(***************************************************************************)
(* save_ratings, lines 196-208, by itself: the bucket loop applied to a    *)
(* Vec as the sort of lines 191-195 leaves it, and applied once more to    *)
(* its own result.  The other variables stay as they are; saved keeps the  *)
(* records of the first pass.                                              *)
(***************************************************************************)
\* Lengths of the runs of equal ratings in a sorted Vec.
TieRuns == 1..3
\* Buckets the items carry from an earlier save.
StaleBuckets == {0, 9}
\* n items in ascending rating order, equal ratings in runs of k.
SortedInput(n, k, b) ==
    [i \in 1..n |-> RatedItem(NameAt(i), 1500 + RatingStep * ((i - 1) \div k),
                              rating_deviation_threshold, b)]
SortedInputs ==
    {SortedInput(n, k, b) : n \in 1..MaxSorted, k \in TieRuns, b \in StaleBuckets}

BucketInit ==
    /\ pc = "sorted"
    /\ items \in SortedInputs
    /\ saved = <<>>
    /\ file = Path("items", "csv")
    /\ do_decay = FALSE
    /\ fs = [p \in Paths |-> NoFile]
    /\ cause = ""
    /\ unstabilized = FALSE
    /\ draw = 0
    /\ branch = ""
    /\ left = 0
    /\ right = 0
    /\ left_player = NoPlayer
    /\ right_player = NoPlayer
    /\ answer = ""
    /\ outcome = ""
    /\ wtr = NoWriter
    /\ loaded = EmptyBag
    /\ asked = FALSE
    /\ compared = FALSE

\* the loop of lines 200-208 over the sorted Vec
Bucketize ==
    /\ pc = "sorted"
    /\ items' = AssignQuartiles(items)
    /\ saved' = Rows(items')
    /\ pc' = "bucketized"
    /\ UNCHANGED <<fs, file, do_decay, cause, unstabilized, round_locals, wtr,
                   loaded, asked, compared>>

\* the same loop over the Vec it has just bucketized
BucketizeAgain ==
    /\ pc = "bucketized"
    /\ items' = AssignQuartiles(items)
    /\ pc' = "rebucketized"
    /\ UNCHANGED <<fs, file, do_decay, cause, unstabilized, round_locals, wtr, history>>

BucketNext == Bucketize \/ BucketizeAgain

BucketSpec == BucketInit /\ [][BucketNext]_vars

(***************************************************************************)
(* run_resort on a store of two fresh items of equal rating, answered by   *)
(* someone who always prefers the first of ItemNames, with file            *)
(* operations that succeed.  The run goes on: a step is taken whenever     *)
(* one can be.                                                             *)
(***************************************************************************)
Favourite == ItemNames[1]
TwoItemInit ==
    /\ Init
    /\ fs[file].exists
    /\ Len(fs[file].rows) = 2
    /\ fs[file].rows[1][2] = fs[file].rows[2][2]
    /\ \A i \in 1..2 : Exceeds(fs[file].rows[i][3])

\* the prompt answered with the entry that shows the favourite
FavourA ==
    /\ pc = "ask"
    /\ Answer(IF items[left].name = Favourite THEN "left" ELSE "right")

TwoItemNext ==
    \/ Load
    \/ WhileTest
    \/ SelectTop
    \/ SelectRandom
    \/ FavourA
    \/ SaveOpen
    \/ SaveSerialize
    \/ SaveRename
    \/ SaveReturn
    \/ Check

TwoItemSpec == TwoItemInit /\ [][TwoItemNext]_vars /\ WF_vars(TwoItemNext)

(***************************************************************************)
(* Claims.                                                                 *)
(***************************************************************************)
AnyAbove(its) == \E i \in 1..Len(its) : its[i].deviation > rating_deviation_threshold
Terminal == pc \in {"stabilized", "insufficient", "aborted"}
\* Buckets never decrease along increasing ratings, for records.
MonotoneRows(rows) ==
    \A i, j \in 1..Len(rows) : rows[i][2] < rows[j][2] => rows[i][4] <= rows[j][4]
\* The live store file's records.
Store == fs[file].rows

\* C1: at loop entry and after every comparison the loop condition is true
\* exactly when some item's deviation is strictly above 65; a round is only
\* started with some deviation above 65, and the run is only declared
\* stabilized with every deviation at most 65.
C1_ContinueIffAbove ==
    /\ pc = "while" => (unstabilized <=> AnyAbove(items))
    /\ pc = "select" => AnyAbove(items)
    /\ pc = "stabilized" =>
          \A i \in 1..Len(items) : items[i].deviation <= rating_deviation_threshold
\* A run that stopped after a comparison with an item exactly on the threshold.
C1_Witness ==
    /\ pc = "stabilized"
    /\ compared
    /\ \E i \in 1..Len(items) : items[i].deviation = rating_deviation_threshold

\* C2 (as claimed): the loop terminates whatever pair selections and
\* answers occur: every run that keeps going ends.
C2_TerminatesAlways == <>Terminal
\* C2 (amended): the loop terminates in every run in which the
\* highest-deviation branch keeps being taken, the update lowering each
\* selected deviation that is above the threshold.
C2_TerminatesIfTopTaken == SF_vars(SelectTop) => <>Terminal
\* A round was taken by the random branch with an item still above the
\* threshold left out of the pair.
C2_Witness ==
    /\ pc = "ask"
    /\ branch = "random"
    /\ \E i \in 1..Len(items) :
           i \notin {left, right} /\ items[i].deviation > rating_deviation_threshold

\* C3: in every round and in both branches, left and right are two
\* different slots of the working set.
C3_DistinctPair ==
    pc \in {"ask", "save"} =>
        /\ left \in 1..Len(items)
        /\ right \in 1..Len(items)
        /\ left # right
\* A pair picked by the random branch among three items.
C3_Witness == pc = "ask" /\ branch = "random" /\ Len(items) = 3

\* C4: after every save_ratings, in the store and in memory, an item with
\* a strictly lower rating never has a higher bucket.
C4_BucketsMonotone ==
    /\ (compared /\ pc \in {"check", "while", "select", "ask", "save", "stabilized"})
          => MonotoneRows(Store)
    /\ (compared /\ pc \in {"check", "while", "select", "stabilized"})
          => MonotoneRows(Rows(items))
\* A saved store with two ratings in order and two buckets in order.
C4_Witness ==
    /\ pc = "check"
    /\ \E i, j \in 1..Len(Store) : Store[i][2] < Store[j][2] /\ Store[i][4] < Store[j][4]

PairNow == << GlickoPlayer(items[left].rating, items[left].deviation),
              GlickoPlayer(items[right].rating, items[right].deviation) >>
C6_EqualIsRight ==
    pc = "save" =>
        /\ answer \in {"equal", "right"} =>
              outcome = "LOSS" /\ PairNow = glicko(left_player, right_player, "LOSS")
        /\ answer = "left" =>
              outcome = "WIN" /\ PairNow = glicko(left_player, right_player, "WIN")
\* The update applied to an answer of "equal".
C6_Witness == pc = "save" /\ answer = "equal"

\* C7: a store of fewer than two records ends the run normally before
\* the loop: no prompt, no update, no write, with or without decay.
C7_TooFewIsNoOp ==
    (pc # "start" /\ cause # "open" /\ BagCardinality(loaded) < 2) =>
        /\ pc = "insufficient"
        /\ cause = ""
        /\ ~asked
        /\ ~compared
        /\ ~wtr.open
        /\ fs[file] = File(saved)
        /\ \A p \in Paths \ {file} : ~fs[p].exists
\* A one-record store with decay requested.
C7_Witness == pc = "insufficient" /\ do_decay /\ Len(items) = 1

\* C8 (as claimed): whenever the run is stabilized the store holds every
\* item's final rating, deviation and bucket.
C8_StabilizedIsPersisted ==
    pc = "stabilized" => BagOf(Rows(items)) = BagOf(Store)
\* A stabilized run with decay requested and no comparison made.
C8_Witness == pc = "stabilized" /\ do_decay /\ ~compared

\* C9 (as claimed): at every instant of a run the live store file holds
\* one complete record set: the last persisted one or the one being saved.
C9_StoreAlwaysComplete ==
    (pc # "start" /\ cause # "open") =>
        /\ fs[file].exists
        /\ Store = saved \/ (wtr.open /\ Store = Rows(items))
\* The instant between the rename and the writer's flush.
C9_Witness == pc = "drop" /\ wtr.buf # <<>>

\* C10: when the prompt fails the run aborts with the pair as it was
\* before the prompt, no writer opened, and the store holding the state of
\* the last completed round (the loaded file when there is none).
C10_OracleAbortKeepsStore ==
    (pc = "aborted" /\ cause = "oracle") =>
        /\ PairNow = <<left_player, right_player>>
        /\ ~wtr.open
        /\ fs[file] = File(saved)
        /\ asked
\* A prompt that failed after a completed round.
C10_Witness == pc = "aborted" /\ cause = "oracle" /\ compared

Hundredths == 0..99
Share(b) == Cardinality({d \in Hundredths : (b = "top") <=> TakesTopBranch(d)})
\* C12 (as claimed): the branch a round takes is taken on the share of the
\* draw range the claim gives it: the highest-deviation branch on three
\* quarters of the range, the two-random-items branch on one quarter.
C12_BranchShares ==
    pc = "ask" => Share(branch) = (IF branch = "top" THEN 75 ELSE 25)
\* A round that took the highest-deviation branch on a draw under 0.25.
C12_Witness == pc = "ask" /\ branch = "top" /\ draw < top_branch_cut /\ Share("top") = 25

\* The bucket of slot i (from 1) and the slots a bucket holds.
BucketAt(i) == items[i].rating_quartile
Holds(b) == Cardinality({i \in 1..Len(items) : BucketAt(i) = b})
\* The highest bucket in use (items is not empty).
TopBucket == CHOOSE b \in {BucketAt(i) : i \in 1..Len(items)} :
                 \A i \in 1..Len(items) : BucketAt(i) <= b

C18_BucketOfPosition ==
    pc = "bucketized" =>
        LET n == Len(items)
            size == (n \div 10) + 1
        IN  /\ \A i \in 1..n : BucketAt(i) = (i - 1) \div size
            /\ \A i \in 1..(n - 1) : items[i].rating <= items[i + 1].rating
            /\ \A b \in 0..(TopBucket - 1) : Holds(b) = size
            /\ Holds(TopBucket) \in 1..size
            /\ \A i \in 1..n : BucketAt(i) \in 0..TopBucket
\* Twenty items: six buckets of three and a last bucket of two.
C18_Witness ==
    /\ pc = "bucketized"
    /\ Len(items) = 20
    /\ TopBucket = 6
    /\ Holds(5) = 3
    /\ Holds(6) = 2

\* C19: for every size n >= 1 every bucket assigned lies in 0..9, and the
\* item at the head of the ascending rating order, whose rating no other
\* item is under, is in bucket 0.
C19_BucketsInRange ==
    pc \in {"bucketized", "rebucketized"} =>
        /\ \A i \in 1..Len(items) : BucketAt(i) \in 0..9
        /\ BucketAt(1) = 0
        /\ \A i \in 1..Len(items) : items[1].rating <= items[i].rating
\* Sizes that reach the last bucket: nineteen and twenty-nine items.
C19_Witness ==
    /\ pc = "bucketized"
    /\ Len(items) \in {19, 29}
    /\ BucketAt(Len(items)) = 9

\* C14 (as claimed): with decay requested on at least two records whose
\* deviations are all at most 65, the working set after the pre-pass has
\* a deviation above 65: the loop is entered, and the run is not declared
\* stabilized before a comparison was made.
C14_DecayReopens ==
    (/\ do_decay
     /\ ~compared
     /\ pc \in {"while", "select", "stabilized"}
     /\ Len(saved) >= 2
     /\ \A i \in 1..Len(saved) : saved[i][3] <= rating_deviation_threshold) =>
        /\ AnyAbove(items)
        /\ pc # "stabilized"
\* Two records decayed from 10 to 63: stabilized with no question asked.
C14_Witness ==
    /\ pc = "stabilized"
    /\ do_decay
    /\ ~asked
    /\ Len(items) >= 2
    /\ \A i \in 1..Len(items) : items[i].deviation = 63 /\ saved[i][3] = 10

\* The store's record of the item of a name (names are unique here).
StoreRow(name) == Store[CHOOSE i \in 1..Len(Store) : Store[i][1] = name]
\* C15: from two items A and B of equal rating with deviations above the
\* threshold, every answer favouring A, the run reaches the stabilized
\* state, and there the store has A's rating above B's, both deviations at
\* most 65, B in bucket 0 and A in bucket 1.
C15_FavouriteEndsOnTop ==
    <>(/\ pc = "stabilized"
       /\ Len(Store) = 2
       /\ StoreRow("a")[2] > StoreRow("b")[2]
       /\ StoreRow("a")[3] <= 65
       /\ StoreRow("b")[3] <= 65
       /\ StoreRow("b")[4] = 0
       /\ StoreRow("a")[4] = 1)
\* The favourite was shown second and picked: the left player lost.
C15_Witness ==
    /\ pc = "save"
    /\ items[right].name = "a"
    /\ answer = "right"
    /\ items[right].rating > items[left].rating

\* C16: a round goes through its steps in order, each once: selection,
\* the prompt, one glicko call on the selected pair with the prompt's
\* outcome written through to both items, save_ratings (buckets, fresh
\* copy, write, rename, flush), the convergence test, and back to the
\* loop test; a prompt is only shown straight after a selection, with no
\* writer open and the store holding the last completed save.
RoundOrder ==
    /\ pc = "while" => pc' \in {"select", "stabilized"}
    /\ pc = "select" => pc' \in {"ask", "aborted"}
    /\ pc = "ask" => pc' \in {"save", "aborted"}
    /\ (pc = "ask" /\ pc' = "save") =>
          /\ answer' \in Answers
          /\ items' = Updated(items, left, right,
                              glicko(GlickoPlayer(items[left].rating, items[left].deviation),
                                     GlickoPlayer(items[right].rating, items[right].deviation),
                                     outcome'))
          /\ fs' = fs
    /\ pc = "save" =>
          /\ pc' \in {"serialize", "aborted"}
          /\ \A i \in 1..(Len(items') - 1) : items'[i].rating <= items'[i + 1].rating
          /\ AssignQuartiles(items') = items'
    /\ pc = "serialize" => pc' \in {"rename", "aborted"}
    /\ pc = "rename" => pc' \in {"drop", "aborted"}
    /\ pc = "drop" => pc' = "check"
    /\ pc = "check" => pc' = "while" /\ items' = items /\ fs' = fs
    /\ pc' = "ask" => pc = "select" /\ ~wtr.open /\ Store = saved
    /\ pc' = "select" => pc = "while"
C16_RoundInOrder == [][RoundOrder]_vars
\* A second round about to select, the first one persisted.
C16_Witness == pc = "select" /\ compared /\ Store = Rows(items) /\ ~wtr.open

\* C17: a pair picked by the highest-deviation branch has the two largest
\* deviations of the working set as it stands (after every earlier
\* update): left's is at least right's, right's at least any other
\* item's; the players handed to glicko carry these values; and since
\* the loop only selects with some deviation above 65, left's is above 65.
C17_TopPairIsLargest ==
    (pc = "ask" /\ branch = "top") =>
        /\ items[left].deviation >= items[right].deviation
        /\ \A i \in 1..Len(items) :
              i \notin {left, right} => items[right].deviation >= items[i].deviation
        /\ left_player.deviation = items[left].deviation
        /\ right_player.deviation = items[right].deviation
        /\ items[left].deviation > 65
\* A later round in which the top branch picks, among three items of
\* three different deviations, the two largest in order.
C17_Witness ==
    /\ pc = "ask"
    /\ branch = "top"
    /\ compared
    /\ Len(items) = 3
    /\ items[left].deviation > items[right].deviation
    /\ \E i \in 1..3 : i \notin {left, right} /\ items[i].deviation < items[right].deviation

\* Name, rating and deviation of every item, by slot.
Measured(its) == [i \in 1..Len(its) |-> <<its[i].name, its[i].rating, its[i].deviation>>]
\* C20: in a round only the two selected items can have their rating or
\* deviation changed: the selection merely reorders the working set, the
\* update leaves every other slot as it was (and every name and bucket),
\* save_ratings changes buckets and order only, the other steps change no
\* item; and the working set read from the store, decayed or not, carries
\* the store's names.
RoundFrame ==
    /\ (pc = "start" /\ pc' # "aborted") =>
          NameBag(Rows(items')) = NameBag(fs[file].rows)
    /\ pc = "select" => BagOf(items') = BagOf(items)
    /\ (pc = "ask" /\ pc' = "save") =>
          /\ Len(items') = Len(items)
          /\ \A i \in 1..Len(items) :
                /\ items'[i].name = items[i].name
                /\ items'[i].rating_quartile = items[i].rating_quartile
                /\ i \notin {left, right} => items'[i] = items[i]
    /\ pc = "save" => BagOf(Measured(items')) = BagOf(Measured(items))
    /\ (pc \notin {"start", "select", "save"} /\ pc' # "save") => items' = items
C20_OnlyThePairChanges == [][RoundFrame]_vars
\* An update applied to a pair out of three items.
C20_Witness ==
    /\ pc = "save"
    /\ Len(items) = 3
    /\ PairNow # <<left_player, right_player>>
    /\ do_decay

=============================================================================
